---- MODULE Spec2Model ----
(***************************************************************************)
(* A model of zebranoise.PerlinStimulus (perlin_stimulus.py) and of the    *)
(* filter helpers of zebranoise.util.                                      *)
(*                                                                         *)
(* The program is single threaded.  One PerlinStimulus instance is current *)
(* at a time; the cache directory and the output directory outlive the     *)
(* instances.  generate_batch and save_video are long running loops over   *)
(* files; each loop iteration is one step, and an exception raised by the  *)
(* environment (an I/O error, an interrupt) may end either between steps.  *)
(*                                                                         *)
(* Numbers.  A noise volume is followed at a few pixels only (PixelsOf);   *)
(* the spatial mean of a frame is the mean over these pixels.  Values are  *)
(* exact rationals kept as integer numerators over a denominator fixed per *)
(* instance (UnitOf), so every mean the code takes is an exact integer     *)
(* division here; the rounding of float16/float32 is not modelled.         *)
(***************************************************************************)
EXTENDS Integers, Sequences, FiniteSets, TLC

VARIABLES
    self,      \* the current PerlinStimulus instance (alive = FALSE: none)
    pc,        \* position of the running operation, "idle" when none runs
    op,        \* the operation that runs, or that returned last
    ret,       \* how the last operation ended: "none", "ok", "error"
    batchfs,   \* cache directory: <<key, k>> -> contents of the batch file
    statsfs,   \* cache directory: key -> contents of the statistics file
    gb,        \* local variables of generate_batch
    entry,     \* what generate_batch found when it was entered (history)
    ncalls,    \* generate_frames calls made by the running/last generate_batch
    tmp,       \* self.tmpdir: frame number -> frame file
    outfs,     \* output directory: file name -> contents
    sv,        \* local variables of the save_video / save_grey_pad called
               \* since the last generate_batch
    af,        \* what generate_frame was given and returned, when it is the
               \* latest call on the generated volume
    nfail      \* exceptions of the environment that have ended a save_video

vars == <<self, pc, op, ret, batchfs, statsfs, gb, entry, ncalls,
          tmp, outfs, sv, af, nfail>>

(***************************************************************************)
(* Bounds of the model.                                                    *)
(***************************************************************************)
MaxTdur == 4           \* longest stimulus of the generation model, in seconds
MaxVideoTdur == 9      \* longest stimulus of the video model, in seconds
MaxAborts == 1         \* save_video runs that the environment ends

(***************************************************************************)
(* Program constants.                                                      *)
(***************************************************************************)
XYSCALEBASE == 100
MemBudget == 400000000

Demeans == {"both", "time", "space", "none"}

Max2(a, b) == IF a >= b THEN a ELSE b
Min2(a, b) == IF a <= b THEN a ELSE b
Abs(a) == IF a >= 0 THEN a ELSE 0 - a

RECURSIVE SumSeq(_)
SumSeq(s) == IF s = <<>> THEN 0 ELSE Head(s) + SumSeq(Tail(s))

RECURSIVE MinSeq(_)
MinSeq(s) == IF Len(s) = 1 THEN s[1] ELSE Min2(Head(s), MinSeq(Tail(s)))

RECURSIVE MaxSeq(_)
MaxSeq(s) == IF Len(s) = 1 THEN s[1] ELSE Max2(Head(s), MaxSeq(Tail(s)))

\* a / b where the code divides exactly; no value when it would not
ExactDiv(a, b) == CHOOSE q \in {a \div b} : q * b = a

(***************************************************************************)
(* Construction: PerlinStimulus.__init__                                   *)
(***************************************************************************)
\* a variant that pads by tscale - tsize % tscale, also when that is tscale
PaddedTsize_full(tdur, fps, tscale) ==
    tdur * fps + (tscale - ((tdur * fps) % tscale))

\* tsize after the padding to a multiple of tscale
PaddedTsize(tdur, fps, tscale) ==
    LET tsize == tdur * fps
        textra == (tscale - (tsize % tscale)) % tscale
    IN  tsize + textra

\* the warning "Adding ... extra timepoints" is emitted
PadWarning(tdur, fps, tscale) ==
    (tscale - ((tdur * fps) % tscale)) % tscale > 0

\* a variant that makes the batch length odd where the quotient is even
BatchSize_odd(xsize, ysize) ==
    LET b == MemBudget \div (xsize * ysize)
    IN  IF b % 2 = 0 /\ b > 0 THEN b - 1 ELSE b

\* lines 86-89: the batch length, made even
BatchSize(xsize, ysize) ==
    LET b == MemBudget \div (xsize * ysize)
    IN  IF b % 2 = 1 THEN b + 1 ELSE b

\* the three assertions of __init__
CtorOK(p) ==
    /\ p.demean \in Demeans
    /\ (p.xsize * XYSCALEBASE) % p.ysize = 0
    /\ p.xsize >= p.ysize

NoSelf ==
    [alive |-> FALSE, size |-> <<0, 0, 0>>, fps |-> 0, seed |-> 0, xyscale |-> 0,
     tscale |-> 0, levels |-> 0, demean |-> "none", xscale |-> 0, yscale |-> 0,
     ratio |-> 0, batch_size |-> 0, warned |-> FALSE, tsize |-> 0,
     has_stats |-> FALSE, min_ |-> 0, max_ |-> 0, nframes |-> 0]

Construct(p) ==
    [alive |-> TRUE,
     size |-> <<p.xsize, p.ysize, PaddedTsize(p.tdur, p.fps, p.tscale)>>,
     fps |-> p.fps, seed |-> p.seed, xyscale |-> p.xyscale, tscale |-> p.tscale,
     levels |-> p.levels, demean |-> p.demean, xscale |-> p.xscale,
     yscale |-> p.yscale,
     ratio |-> (p.xsize * XYSCALEBASE) \div p.ysize,
     batch_size |-> BatchSize(p.xsize, p.ysize),
     warned |-> PadWarning(p.tdur, p.fps, p.tscale),
     tsize |-> p.tdur * p.fps,        \* tsize = int(tdur*fps), line 64
     has_stats |-> FALSE, min_ |-> 0, max_ |-> 0, nframes |-> 0]

(***************************************************************************)
(* The cache key and the cache files.  md5 of the printed tuple is taken   *)
(* to be injective: the key is the tuple itself.                           *)
(***************************************************************************)
cache_key(s) == <<s.size, s.fps, s.seed, s.xyscale, s.tscale, s.levels, s.demean>>

\* os.path.isfile(self.cache_filename("stats"))
StatsIsFile(s) == cache_key(s) \in DOMAIN statsfs

\* os.path.isfile(self.cache_filename(k))
BatchIsFile(s, k) == <<cache_key(s), k>> \in DOMAIN batchfs

\* the batch numbers that have a file under the key of s
BatchesOf(fs, s) == {f[2] : f \in {g \in DOMAIN fs : g[1] = cache_key(s)}}

(***************************************************************************)
(* The noise sampler and generate_frames.                                  *)
(***************************************************************************)
\* the pixels (row, column) of a ysize x xsize frame that the model follows:
\* the top right corner, the bottom right corner of the IBL marker square,
\* and the bottom left corner
PixelsOf(xsize, ysize) == << <<0, xsize - 1>>, <<1499, 1994>>, <<ysize - 1, 0>> >>

NPix == Len(PixelsOf(0, 0))

\* denominator of the values of an instance: every division of
\* generate_batch is exact over it
UnitOf(s) ==
    LET r == IF s.batch_size = 0 THEN 0 ELSE s.size[3] % s.batch_size
    IN  NPix * Max2(s.size[3], 1) * Max2(s.batch_size, 1) * Max2(r, 1)

\* _perlin.make_perlin at one pixel and one time: a fixed deterministic
\* function of every argument it receives, with values 0..6
Sample(xc, yc, tc, octaves, persistence, repeatx, repeaty, repeatz, base) ==
    ((xc + 1) * (tc + 2) * (tc + yc + 3) + 5 * base + octaves
       + 2 * persistence + repeatx + repeaty + repeatz) % 7

\* the arguments generate_batch and generate_frame pass to generate_frames
GenArgs(s) ==
    [xsize |-> s.size[1], ysize |-> s.size[2], tsize |-> s.size[3],
     levels |-> s.levels, xyscale |-> s.xyscale, tscale |-> s.tscale,
     xscale |-> s.xscale, yscale |-> s.yscale, fps |-> s.fps, seed |-> s.seed]

\* util.generate_frames: one frame (pixel number -> value) per timepoint.
\* Coordinates are scaled as the code scales them, on an integer grid:
\* x -> x/ysize/xscale, y -> y/ysize/yscale (in units of 1/4 of a frame height),
\* t -> t/(tscale*fps/30) (in units of 1/30).
generate_frames(a, timepoints, unit) ==
    LET tunits == (a.tsize * 30) \div (a.tscale * a.fps)
        ratio == (a.xsize * XYSCALEBASE) \div a.ysize
        px == PixelsOf(a.xsize, a.ysize)
        val(i, t) == Sample((4 * px[i][2]) \div (a.ysize * a.xscale),
                            (4 * px[i][1]) \div (a.ysize * a.yscale),
                            (30 * t) \div (a.tscale * a.fps),
                            a.levels, a.xyscale, ratio, XYSCALEBASE, tunits, a.seed)
    IN  [j \in 1..Len(timepoints) |->
            [i \in 1..NPix |-> unit * val(i, timepoints[j])]]

\* arr -= np.mean(arr, axis=(0,1), keepdims=True)
DemeanFrames(arr) ==
    [j \in 1..Len(arr) |->
        LET m == ExactDiv(SumSeq(arr[j]), NPix)
        IN  [i \in 1..NPix |-> arr[j][i] - m]]

\* np.min(arr), np.max(arr) of a batch with at least one frame
ArrMin(arr) == MinSeq([j \in 1..Len(arr) |-> MinSeq(arr[j])])
ArrMax(arr) == MaxSeq([j \in 1..Len(arr) |-> MaxSeq(arr[j])])

\* np.mean(arr, axis=2): per pixel, the mean over the frames of the batch
MeanOverTime(arr) ==
    [i \in 1..NPix |->
        ExactDiv(SumSeq([j \in 1..Len(arr) |-> arr[j][i]]), Len(arr))]

(***************************************************************************)
(* generate_batch                                                          *)
(***************************************************************************)
\* a new, empty temporary directory (tempfile.mkdtemp)
TmpEmpty == [frames |-> <<>>, grey |-> FALSE]

GbIdle ==
    [k |-> 0, means_t |-> <<>>, weights |-> <<>>, mins |-> <<>>, maxes |-> <<>>,
     mean_t |-> <<>>, nframes |-> 0, min_ |-> 0, max_ |-> 0]

EntryNone == [hit |-> FALSE, fresh |-> FALSE, b |-> <<>>, s |-> <<>>]

\* a variant that rounds down, dropping a last, shorter batch that follows
\* a full one
NumBatches_floor(s) == Max2(s.size[3] \div s.batch_size, 1)

\* int(np.ceil(self.size[2]/self.batch_size)), for batch_size > 0
NumBatches(s) == (s.size[3] + s.batch_size - 1) \div s.batch_size

\* list(range(k*batch_size, min(size[2], (k+1)*batch_size)))
Timepoints(s, k) ==
    LET lo == k * s.batch_size
        hi == Min2(s.size[3], (k + 1) * s.batch_size)
    IN  [j \in 1..Max2(hi - lo, 0) |-> lo + j - 1]

\* the array generate_batch saves for batch k in its first pass
FirstPassArr(s, k) ==
    LET arr == generate_frames(GenArgs(s), Timepoints(s, k), UnitOf(s))
    IN  IF s.demean \in {"both", "time"} THEN DemeanFrames(arr) ELSE arr

\* np.sum(means_t * weights[:,None,None], axis=0) / np.sum(weights)
WeightedMean(means_t, weights) ==
    [i \in 1..NPix |->
        ExactDiv(SumSeq([b \in 1..Len(means_t) |-> means_t[b][i] * weights[b]]),
                 SumSeq(weights))]

\* arr -= mean_t[:,:,None]
SubtractMean(arr, mean_t) ==
    [j \in 1..Len(arr) |-> [i \in 1..NPix |-> arr[j][i] - mean_t[i]]]

\* lines 150-155 and the entry to the first loop: the effect of entering
\* generate_batch on instance s (called by __init__ or by the user)
GbEnterEffect(s) ==
    /\ op' = "generate_batch"
    /\ ncalls' = 0
    /\ entry' = [hit |-> StatsIsFile(s),
                 fresh |-> ~StatsIsFile(s) /\ BatchesOf(batchfs, s) = {},
                 b |-> batchfs, s |-> statsfs]
    /\ gb' = GbIdle
    /\ IF StatsIsFile(s)
       THEN LET stats == statsfs[cache_key(s)]
            IN  IF stats.complete
                THEN /\ self' = [s EXCEPT !.has_stats = TRUE, !.min_ = stats.min_,
                                          !.max_ = stats.max_,
                                          !.nframes = stats.nframes]
                     /\ pc' = "idle"
                     /\ ret' = "ok"
                ELSE \* np.load raises on a truncated archive
                     /\ self' = s
                     /\ pc' = "idle"
                     /\ ret' = "error"
       ELSE /\ self' = s
            /\ IF s.batch_size = 0
               THEN pc' = "idle" /\ ret' = "error"   \* ZeroDivisionError, line 164
               ELSE pc' = "gb_gen" /\ ret' = "none"

\* save_video, save_grey_pad and generate_frame before any call of them
SvIdle ==
    [fn |-> <<>>, loop |-> 0, filters |-> <<>>, i |-> 0, k |-> 0, shift |-> 0,
     n_frames |-> 0, log |-> <<>>,
     enc |-> "none",      \* the encoder: not called, or how its run ended
     existed |-> FALSE]   \* the file the encoder is to write existed at entry

AfIdle == [t |-> 0, filters |-> <<>>, log |-> <<>>, out |-> <<>>]

\* the user calls generate_batch on the current instance
GenerateBatch ==
    /\ pc = "idle"
    /\ self.alive
    /\ GbEnterEffect(self)
    /\ sv' = SvIdle
    /\ af' = AfIdle
    /\ UNCHANGED <<batchfs, statsfs, tmp, outfs, nfail>>

\* a variant that keeps a batch file that exists instead of writing over it
GbGenerate_keep ==
    /\ pc = "gb_gen"
    /\ gb.k < NumBatches(self)
    /\ LET new == FirstPassArr(self, gb.k)
           arr == IF BatchIsFile(self, gb.k)
                  THEN batchfs[<<cache_key(self), gb.k>>].arr ELSE new
       IN  /\ gb' = [gb EXCEPT !.k = @ + 1,
                               !.mins = Append(@, ArrMin(arr)),
                               !.maxes = Append(@, ArrMax(arr)),
                               !.means_t = Append(@, MeanOverTime(arr)),
                               !.weights = Append(@, Len(arr))]
           /\ batchfs' = IF BatchIsFile(self, gb.k) THEN batchfs
                         ELSE (<<cache_key(self), gb.k>> :>
                                 [arr |-> arr, by |-> GenArgs(self), sweeps |-> 0])
                              @@ batchfs
    /\ ncalls' = ncalls + 1
    /\ UNCHANGED <<self, pc, op, ret, statsfs, entry, tmp, outfs, sv, af, nfail>>

\* one iteration of the loop of lines 164-177
GbGenerate ==
    /\ pc = "gb_gen"
    /\ gb.k < NumBatches(self)
    /\ LET arr == FirstPassArr(self, gb.k)
       IN  /\ gb' = [gb EXCEPT !.k = @ + 1,
                               !.mins = Append(@, ArrMin(arr)),
                               !.maxes = Append(@, ArrMax(arr)),
                               !.means_t = Append(@, MeanOverTime(arr)),
                               !.weights = Append(@, Len(arr))]
           /\ batchfs' = (<<cache_key(self), gb.k>> :>
                            [arr |-> arr, by |-> GenArgs(self), sweeps |-> 0])
                         @@ batchfs
    /\ ncalls' = ncalls + 1
    /\ UNCHANGED <<self, pc, op, ret, statsfs, entry, tmp, outfs, sv, af, nfail>>

\* a variant that keeps the mins and maxes of the first pass for the
\* statistics
GbMean_stale ==
    /\ pc = "gb_gen"
    /\ gb.k >= NumBatches(self)
    /\ gb' = [gb EXCEPT !.mean_t = WeightedMean(gb.means_t, gb.weights),
                        !.nframes = SumSeq(gb.weights),
                        !.k = 0]
    /\ pc' = IF self.demean \in {"both", "space"} THEN "gb_sweep" ELSE "gb_stats"
    /\ UNCHANGED <<self, op, ret, batchfs, statsfs, entry, ncalls,
                   tmp, outfs, sv, af, nfail>>

\* lines 178-186: the loop has ended
GbMean ==
    /\ pc = "gb_gen"
    /\ gb.k >= NumBatches(self)
    /\ gb' = [gb EXCEPT !.mean_t = WeightedMean(gb.means_t, gb.weights),
                        !.nframes = SumSeq(gb.weights),
                        !.k = 0,
                        !.mins = IF self.demean \in {"both", "space"}
                                 THEN <<>> ELSE @,
                        !.maxes = IF self.demean \in {"both", "space"}
                                  THEN <<>> ELSE @]
    /\ pc' = IF self.demean \in {"both", "space"} THEN "gb_sweep" ELSE "gb_stats"
    /\ UNCHANGED <<self, op, ret, batchfs, statsfs, entry, ncalls,
                   tmp, outfs, sv, af, nfail>>

\* one iteration of the loop of lines 187-194
GbSweep ==
    /\ pc = "gb_sweep"
    /\ BatchIsFile(self, gb.k)
    /\ LET f == batchfs[<<cache_key(self), gb.k>>]
           arr == SubtractMean(f.arr, gb.mean_t)
       IN  /\ gb' = [gb EXCEPT !.k = @ + 1,
                               !.mins = Append(@, ArrMin(arr)),
                               !.maxes = Append(@, ArrMax(arr))]
           /\ batchfs' = [batchfs EXCEPT ![<<cache_key(self), gb.k>>] =
                            [f EXCEPT !.arr = arr, !.sweeps = @ + 1]]
    /\ UNCHANGED <<self, pc, op, ret, statsfs, entry, ncalls,
                   tmp, outfs, sv, af, nfail>>

\* a variant that may write the statistics while the sweep is still under way
GbStatsOpen_early ==
    /\ pc \in {"gb_stats", "gb_sweep"}
    /\ gb.mins # <<>>
    /\ pc' = "gb_statsw"
    /\ gb' = [gb EXCEPT !.min_ = MinSeq(gb.mins), !.max_ = MaxSeq(gb.maxes)]
    /\ statsfs' = (cache_key(self) :>
                     [complete |-> FALSE, min_ |-> 0, max_ |-> 0,
                      nframes |-> 0]) @@ statsfs
    /\ UNCHANGED <<self, op, ret, batchfs, entry, ncalls, tmp, outfs, sv, af, nfail>>

\* lines 195-198, up to the moment np.savez_compressed has created the
\* archive and not yet finished it
GbStatsOpen ==
    /\ \/ pc = "gb_stats"
       \/ pc = "gb_sweep" /\ ~BatchIsFile(self, gb.k)
    /\ IF gb.mins = <<>>
       THEN \* np.min of an empty list raises
            /\ pc' = "idle"
            /\ ret' = "error"
            /\ gb' = GbIdle
            /\ statsfs' = statsfs
       ELSE /\ pc' = "gb_statsw"
            /\ ret' = ret
            /\ gb' = [gb EXCEPT !.min_ = MinSeq(gb.mins), !.max_ = MaxSeq(gb.maxes)]
            /\ statsfs' = (cache_key(self) :>
                             [complete |-> FALSE, min_ |-> 0, max_ |-> 0,
                              nframes |-> 0]) @@ statsfs
    /\ UNCHANGED <<self, op, batchfs, entry, ncalls, tmp, outfs, sv, af, nfail>>

\* np.savez_compressed returns, then lines 199-201
GbStatsClose ==
    /\ pc = "gb_statsw"
    /\ statsfs' = [statsfs EXCEPT ![cache_key(self)] =
                     [complete |-> TRUE, min_ |-> gb.min_, max_ |-> gb.max_,
                      nframes |-> gb.nframes]]
    /\ self' = [self EXCEPT !.has_stats = TRUE, !.min_ = gb.min_,
                            !.max_ = gb.max_, !.nframes = gb.nframes]
    /\ pc' = "idle"
    /\ ret' = "ok"
    /\ gb' = GbIdle
    /\ UNCHANGED <<op, batchfs, entry, ncalls, tmp, outfs, sv, af, nfail>>

\* an exception of the environment (I/O error, interrupt) ends generate_batch
\* where it stands; nothing in generate_batch catches it
GbAbort ==
    /\ pc \in {"gb_gen", "gb_sweep", "gb_stats", "gb_statsw"}
    /\ pc' = "idle"
    /\ ret' = "error"
    /\ gb' = GbIdle
    /\ UNCHANGED <<self, op, batchfs, statsfs, entry, ncalls,
                   tmp, outfs, sv, af, nfail>>

(***************************************************************************)
(* PerlinStimulus(...): the constructor, which calls generate_batch unless *)
(* delay_batch is set.  The new instance replaces the current one and has  *)
(* a temporary directory of its own.                                       *)
(***************************************************************************)
NewOver(P) ==
    /\ pc = "idle"
    /\ \E p \in P, delay_batch \in BOOLEAN :
          \* once an instance exists, the later ones are made for its cache
          \* key: instances of other keys use other files
          /\ ~self.alive \/ cache_key(Construct(p)) = cache_key(self)
          /\ IF ~CtorOK(p)
             THEN /\ op' = "init"
                  /\ ret' = "error"
                  /\ UNCHANGED <<self, pc, gb, entry, ncalls, tmp>>
             ELSE /\ tmp' = TmpEmpty
                  /\ IF delay_batch
                     THEN /\ self' = Construct(p)
                          /\ op' = "init"
                          /\ ret' = "ok"
                          /\ UNCHANGED <<pc, gb, entry, ncalls>>
                     ELSE GbEnterEffect(Construct(p))
    /\ UNCHANGED <<batchfs, statsfs, outfs, sv, af, nfail>>

\* PerlinStimulus(..., delay_batch=True): the constructor alone, for any
\* parameters; nothing is read from or written to the cache
NewDelayed(P) ==
    /\ pc = "idle"
    /\ \E p \in P :
          IF ~CtorOK(p)
          THEN /\ op' = "init"
               /\ ret' = "error"       \* AssertionError, lines 63, 67, 74
               /\ UNCHANGED <<self, tmp>>
          ELSE /\ self' = Construct(p)
               /\ tmp' = TmpEmpty
               /\ op' = "init"
               /\ ret' = "ok"
    /\ UNCHANGED <<pc, gb, entry, ncalls, batchfs, statsfs, outfs, sv, af, nfail>>

(***************************************************************************)
(* util.filter_frames, util.apply_filters, util.discretize and             *)
(* util.filter_frames_index_function.                                      *)
(*                                                                         *)
(* An image batch is [den, fr]: fr[j][i] is the numerator of pixel i of    *)
(* frame j (frames numbered from 1 here, from 0 in the code) over the      *)
(* denominator den, so 1.0 is den.  A filter entry is [str, n, args]: str  *)
(* tells a bare name from a (name, args...) tuple.  A real argument is a   *)
(* pair <<numerator, denominator>>.                                        *)
(***************************************************************************)
\* the IBL marker filter's constants
IblS == 75
IblX == 1995
IblY == 1500
IblNC == 8
IblNS == 3600

\* np.random.seed(1234); np.random.random(ns): the first values, in 1/10000
IblRandom == <<1915, 6221, 4377, 7854, 7800, 2726, 2765, 8019, 9581, 8759>>

\* np.tile(r, (nc,1)).T.flatten()[g] > .5, g counted from 0: each value of r
\* is repeated nc times
IblBit(g) == IblRandom[(g \div IblNC) + 1] * 2 > 10000

\* a Python slice bound on an axis of length n
SliceBound(b, n) == IF b < 0 THEN Max2(b + n, 0) ELSE Min2(b, n)

\* pixel px = <<row, col>> lies in im[r0:r1, c0:c1] of a ysize x xsize frame
InRect(px, r0, r1, c0, c1, xsize, ysize) ==
    /\ SliceBound(r0, ysize) <= px[1] /\ px[1] < SliceBound(r1, ysize)
    /\ SliceBound(c0, xsize) <= px[2] /\ px[2] < SliceBound(c1, xsize)

\* the filters whose result is a real function of the value; their value
\* is not computed by the model
RealValued == {"softthresh", "blur"}
NoValue == CHOOSE x \in {} : TRUE

\* a callable passed as a filter: lambda im: im * 0
Callables == {"<lambda>"}

\* a variant that lets every name pass and returns the frames as they are
filter_frames_pass(im, filt, args, xsize, ysize) == [ok |-> TRUE, im |-> im]

\* util.filter_frames on frames of xsize x ysize pixels:
\* [ok |-> FALSE] is raise ValueError("Invalid filter specified")
filter_frames(im, filt, args, xsize, ysize) ==
    LET px == PixelsOf(xsize, ysize)
        den == im.den
        big == xsize + ysize
        yes(x) == [ok |-> TRUE, im |-> x]
        \* im[region, ::2] = 0; im[region, 1::2] = 1
        Stripe(m, inreg(_)) ==
            [m EXCEPT !.fr = [j \in 1..Len(m.fr) |-> [i \in 1..NPix |->
                IF inreg(i) THEN (IF (j - 1) % 2 = 0 THEN 0 ELSE m.den)
                ELSE m.fr[j][i]]]]
        \* an expression of im, element by element
        PointWise(m, f(_)) ==
            [m EXCEPT !.fr = [j \in 1..Len(m.fr) |-> [i \in 1..NPix |->
                f(m.fr[j][i])]]]
    IN  CASE filt = "threshold" ->
               yes(PointWise(im, LAMBDA v :
                   IF v * args[1][2] > args[1][1] * den THEN den ELSE 0))
          [] filt \in RealValued -> yes(NoValue)
          [] filt = "comb" ->
               yes(PointWise(im, LAMBDA v :
                   IF ((v * args[1][2]) \div (den * args[1][1])) % 2 = 1
                   THEN den ELSE 0))
          [] filt = "invert" -> yes(PointWise(im, LAMBDA v : den - v))
          [] filt = "reverse" -> yes(im)
          [] filt = "wood" ->
               yes(PointWise(im, LAMBDA v :
                   ExactDiv((v * args[1][2]) % (den * args[1][1]), args[1][1])))
          [] filt = "center" -> yes(PointWise(im, LAMBDA v : den - Abs(2 * v - den)))
          [] filt = "photodiode" ->
               yes(Stripe(im, LAMBDA i :
                   InRect(px[i], 0, args[1], 0 - args[1], big, xsize, ysize)))
          [] filt = "photodiode_anywhere" ->
               yes(Stripe(im, LAMBDA i :
                   InRect(px[i], args[2], args[2] + args[3],
                          args[1], args[1] + args[3], xsize, ysize)))
          [] filt = "photodiode_b2" ->
               yes(Stripe(im, LAMBDA i : InRect(px[i], 0, 125, -125, big, xsize, ysize)))
          [] filt = "photodiode_fusi" ->
               yes(Stripe(im, LAMBDA i : InRect(px[i], 0, 75, -75, big, xsize, ysize)))
          [] filt = "photodiode_bscope" ->
               yes(Stripe(im, LAMBDA i : InRect(px[i], -100, big, 0, 100, xsize, ysize)))
          [] filt = "photodiode_ibl" ->
               yes([im EXCEPT !.fr = [j \in 1..Len(im.fr) |-> [i \in 1..NPix |->
                   IF InRect(px[i], IblY - IblS, IblY, IblX - IblS, IblX, xsize, ysize)
                   THEN (IF IblBit(j - 1) THEN den ELSE 0)
                   ELSE im.fr[j][i]]]])
          [] filt \in Callables -> yes(PointWise(im, LAMBDA v : 0))
          [] OTHER -> [ok |-> FALSE, im |-> im]

\* util.apply_filters from entry i on; log is the list of the filters applied
\* so far.  [ok |-> FALSE] is the exception of filter_frames passing through.
RECURSIVE ApplyFrom(_, _, _, _, _, _)
ApplyFrom(im, filters, i, log, xsize, ysize) ==
    IF i > Len(filters) THEN [ok |-> TRUE, im |-> im, log |-> log]
    ELSE LET f == filters[i]
             n == f.n
             args == IF f.str THEN <<>> ELSE f.args
             r == filter_frames(im, n, args, xsize, ysize)
         IN  IF r.ok
             THEN ApplyFrom(r.im, filters, i + 1, Append(log, n), xsize, ysize)
             ELSE [ok |-> FALSE, im |-> im, log |-> log]

apply_filters(im, filters, xsize, ysize) ==
    ApplyFrom(im, filters, 1, <<>>, xsize, ysize)

\* util.filter_frames_index_function: "reverse" in filters compares whole
\* entries with the string
HasReverse(filters) == \E i \in 1..Len(filters) : filters[i].str /\ filters[i].n = "reverse"

\* a variant whose reversal is off by one
filter_frames_index_function_off(filters, nframes, x) ==
    IF HasReverse(filters) THEN nframes - x ELSE x

\* the function filter_frames_index_function(filters, nframes) returns, at x
filter_frames_index_function(filters, nframes, x) ==
    IF HasReverse(filters) THEN nframes - x - 1 ELSE x

\* util.discretize: im *= 255; im.astype(np.uint8), per pixel of a frame
discretize(frame, den) == [i \in 1..NPix |-> ((frame[i] * 255) \div den) % 256]

(***************************************************************************)
(* save_video, save_grey_pad, generate_frame                               *)
(***************************************************************************)
\* Files of the temporary and of the output directory carry a mark, cur,
\* that tells whether the running (or last) call wrote them; Aged(fs) is fs
\* as a new call finds it.
Aged(fs) == [x \in DOMAIN fs |-> [fs[x] EXCEPT !.cur = FALSE]]

\* a file name is the sequence of its characters
DotMp4 == <<".", "m", "p", "4">>

\* fn[-4:]
Last4(fn) == SubSeq(fn, Max2(Len(fn) - 3, 1), Len(fn))

\* if fn[-4:] != ".mp4": fn += ".mp4"
WithMp4(fn) == IF Last4(fn) # DotMp4 THEN fn \o DotMp4 ELSE fn

\* data = np.load(...); data -= self.min_; data *= 1/(self.max_-self.min_)
LoadRescaled(s, arr) ==
    [den |-> s.max_ - s.min_,
     fr |-> [j \in 1..Len(arr) |-> [i \in 1..NPix |-> arr[j][i] - s.min_]]]

\* a[lo:hi] of a sequence (indices from 0, bounds clipped)
PySlice(a, lo, hi) ==
    LET l == Min2(lo, Len(a))
        h == Min2(hi, Len(a))
    IN  [j \in 1..Max2(h - l, 0) |-> a[l + j]]

\* (seq[shift:(shift+n)] > .5).astype(np.int8)
IblSlice(shift, n) ==
    LET l == Min2(shift, IblNC * IblNS)
        h == Min2(shift + n, IblNC * IblNS)
    IN  [j \in 1..Max2(h - l, 0) |-> IF IblBit(l + j - 1) THEN 1 ELSE 0]

\* lines 246-260: the name and the arguments save_video hands to filter_frames
SvArgs(f, shift, n) ==
    IF f.str
    THEN IF f.n = "photodiode_ibl" THEN IblSlice(shift, n) ELSE <<>>
    ELSE IF f.n = "photodiode_ibl" THEN PySlice(f.args[1], shift, shift + n)
         ELSE f.args

\* lines 245-261: the filter loop of save_video on one batch
RECURSIVE SvFilters(_, _, _, _, _, _, _)
SvFilters(im, filters, i, shift, log, xsize, ysize) ==
    IF i > Len(filters) THEN [ok |-> TRUE, im |-> im, log |-> log]
    ELSE LET f == filters[i]
             r == filter_frames(im, f.n, SvArgs(f, shift, Len(im.fr)), xsize, ysize)
         IN  IF r.ok
             THEN SvFilters(r.im, filters, i + 1, shift, Append(log, f.n), xsize, ysize)
             ELSE [ok |-> FALSE, im |-> im, log |-> log]

\* the calls of a save_video, save_grey_pad or generate_frame
SaveVideo(fn, loop, filters) ==
    /\ pc = "idle"
    /\ self.alive
    /\ op' = "save_video"
    /\ tmp' = [tmp EXCEPT !.frames = Aged(@)]
    /\ outfs' = Aged(outfs)
    /\ LET info == [SvIdle EXCEPT !.fn = fn,
                                  !.existed = WithMp4(fn) \in DOMAIN outfs]
       IN  IF fn \in DOMAIN outfs
           THEN pc' = "idle" /\ ret' = "error" /\ sv' = info   \* IOError, line 234
           ELSE IF ~self.has_stats
           THEN \* no self.nframes, line 238
                pc' = "idle" /\ ret' = "error" /\ sv' = info
           ELSE /\ pc' = "sv_batch"
                /\ ret' = "none"
                /\ sv' = [info EXCEPT !.loop = loop, !.filters = filters]
    /\ af' = AfIdle
    /\ UNCHANGED <<self, batchfs, statsfs, gb, entry, ncalls, nfail>>

\* one iteration of the loop of lines 239-269
SvBatch ==
    /\ pc = "sv_batch"
    /\ BatchIsFile(self, sv.k)
    /\ LET arr == batchfs[<<cache_key(self), sv.k>>].arr
           n == Len(arr)
           data == LoadRescaled(self, arr)
           r == SvFilters(data, sv.filters, 1, sv.shift, <<>>,
                          self.size[1], self.size[2])
           num(j) == filter_frames_index_function(sv.filters, self.nframes,
                                                  sv.i + j - 1)
           written == [x \in {num(j) : j \in 1..n} |->
                          LET j == CHOOSE jj \in 1..n : num(jj) = x
                          IN  [g |-> sv.i + j - 1, cur |-> TRUE,
                               px |-> discretize(r.im.fr[j], data.den)]]
       IN  IF r.ok
           THEN /\ tmp' = [tmp EXCEPT !.frames = written @@ @]
                /\ sv' = [sv EXCEPT !.i = @ + n, !.k = @ + 1, !.shift = @ + n,
                                    !.log = r.log]
                /\ UNCHANGED <<pc, ret>>
           ELSE /\ pc' = "idle"
                /\ ret' = "error"
                /\ sv' = [sv EXCEPT !.log = r.log]
                /\ tmp' = tmp
    /\ UNCHANGED <<self, op, batchfs, statsfs, gb, entry, ncalls, outfs,
                   af, nfail>>

\* os.link(src, dst) for each pair in turn; the first missing src or existing
\* dst raises and leaves the links made so far
RECURSIVE LinkAll(_, _)
LinkAll(frames, pairs) ==
    IF pairs = <<>> THEN [ok |-> TRUE, frames |-> frames]
    ELSE LET src == Head(pairs)[1]
             dst == Head(pairs)[2]
         IN  IF src \notin DOMAIN frames \/ dst \in DOMAIN frames
             THEN [ok |-> FALSE, frames |-> frames]
             ELSE LinkAll((dst :> frames[src]) @@ frames, Tail(pairs))

\* lines 270-273: the loop has ended; the copies of the later loops are linked
SvLink ==
    /\ pc = "sv_batch"
    /\ ~BatchIsFile(self, sv.k)
    /\ LET n == sv.i
           pairs == [m \in 1..((sv.loop - 1) * n) |->
                        <<(m - 1) % n, ((m - 1) % n) + (1 + (m - 1) \div n) * n>>]
           r == LinkAll(tmp.frames, pairs)
       IN  /\ tmp' = [tmp EXCEPT !.frames = r.frames]
           /\ sv' = [sv EXCEPT !.n_frames = n]
           /\ IF r.ok THEN pc' = "sv_enc" /\ ret' = ret
              ELSE pc' = "idle" /\ ret' = "error"
    /\ UNCHANGED <<self, op, batchfs, statsfs, gb, entry, ncalls, outfs,
                   af, nfail>>

\* the encoder reads _frame00000.tif, _frame00001.tif, ... up to the first
\* number that has no file
RECURSIVE CountFrom(_, _)
CountFrom(frames, n) == IF n \in DOMAIN frames THEN CountFrom(frames, n + 1) ELSE n

\* the video file written: the number of its frames
Encoded(frames) == [n |-> CountFrom(frames, 0), cur |-> TRUE]

\* subprocess.call of the encoder: its exit status is the value of the call.
\* A run that ends well has written the file; one that does not has not.
EncoderOutcomes(frames) == IF 0 \in DOMAIN frames THEN {"ok", "failed"} ELSE {"failed"}

\* lines 274-278: the encoder runs, the frame files are removed, return
SvEncode ==
    /\ pc = "sv_enc"
    /\ \E outcome \in EncoderOutcomes(tmp.frames) :
          /\ outfs' = IF outcome = "ok"
                      THEN (WithMp4(sv.fn) :> Encoded(tmp.frames)) @@ outfs
                      ELSE outfs
          /\ sv' = [sv EXCEPT !.enc = outcome]
    /\ tmp' = [tmp EXCEPT !.frames = <<>>]     \* glob("_frame*.tif"), unlink
    /\ pc' = "idle"
    /\ ret' = "ok"
    /\ UNCHANGED <<self, op, batchfs, statsfs, gb, entry, ncalls, af, nfail>>

\* an exception of the environment (I/O error, interrupt) ends save_video
\* where it stands; nothing in save_video catches it
SvAbort ==
    /\ pc \in {"sv_batch", "sv_enc"}
    /\ nfail < MaxAborts
    /\ nfail' = nfail + 1
    /\ pc' = "idle"
    /\ ret' = "error"
    /\ UNCHANGED <<self, op, batchfs, statsfs, gb, entry, ncalls, tmp,
                   outfs, sv, af>>

\* save_grey_pad(fn, dur)
SaveGreyPad(fn, dur) ==
    /\ pc = "idle"
    /\ self.alive
    /\ op' = "save_grey_pad"
    /\ pc' = "idle"
    /\ LET n == dur * self.fps
           info == [SvIdle EXCEPT !.fn = fn, !.n_frames = n,
                                  !.existed = WithMp4(fn) \in DOMAIN outfs]
           grey == [g |-> -1, cur |-> TRUE, px |-> [i \in 1..NPix |-> 127]]
           \* the grey image stands at number -1 while it is linked from
           old == Aged(tmp.frames)
           r == LinkAll((-1 :> grey) @@ old, [m \in 1..n |-> <<-1, m - 1>>])
           linked == [x \in DOMAIN r.frames \ {-1} |-> r.frames[x]]
       IN  IF ~BatchIsFile(self, 0)
           THEN \* np.load raises, line 204
                /\ ret' = "error"
                /\ sv' = info
                /\ tmp' = [tmp EXCEPT !.frames = old]
                /\ outfs' = Aged(outfs)
           ELSE IF ~r.ok
           THEN \* os.link raises, line 208
                /\ ret' = "error"
                /\ sv' = info
                /\ tmp' = [frames |-> linked, grey |-> TRUE]
                /\ outfs' = Aged(outfs)
           ELSE \E outcome \in EncoderOutcomes(linked) :
                /\ ret' = "ok"
                /\ sv' = [info EXCEPT !.enc = outcome]
                /\ tmp' = TmpEmpty
                /\ outfs' = IF outcome = "ok"
                            THEN (WithMp4(fn) :> Encoded(linked)) @@ Aged(outfs)
                            ELSE Aged(outfs)
    /\ af' = AfIdle
    /\ UNCHANGED <<self, batchfs, statsfs, gb, entry, ncalls, nfail>>

\* generate_frame(t, filters) for a single time t
GenerateFrame(t, filters) ==
    /\ pc = "idle"
    /\ self.alive
    /\ op' = "generate_frame"
    /\ pc' = "idle"
    /\ LET raw == generate_frames(GenArgs(self), <<t>>, UnitOf(self))
           arr == IF self.demean \in {"both", "time"} THEN DemeanFrames(raw) ELSE raw
           r == apply_filters([den |-> UnitOf(self), fr |-> arr], filters,
                              self.size[1], self.size[2])
       IN  /\ ret' = IF r.ok THEN "ok" ELSE "error"
           /\ af' = [t |-> t, filters |-> filters, log |-> r.log,
                     out |-> IF r.ok THEN r.im.fr ELSE <<>>]
    /\ UNCHANGED <<self, batchfs, statsfs, gb, entry, ncalls, tmp, outfs, sv, nfail>>

(***************************************************************************)
(* The generation model: instances over a small family of parameters, the  *)
(* cache shared between them.                                              *)
(***************************************************************************)
BaseParams ==
    [xsize |-> 20000, ysize |-> 10000, tdur |-> 3, levels |-> 10, xyscale |-> 2,
     tscale |-> 1, fps |-> 1, xscale |-> 1, yscale |-> 1, seed |-> 0,
     demean |-> "both"]

GenParams ==
    {[BaseParams EXCEPT !.tdur = d, !.demean = m, !.xscale = xs] :
        d \in 1..MaxTdur, m \in Demeans, xs \in {1, 2}}

Init ==
    /\ self = NoSelf
    /\ pc = "idle"
    /\ op = "none"
    /\ ret = "none"
    /\ batchfs = <<>>
    /\ statsfs = <<>>
    /\ gb = GbIdle
    /\ entry = EntryNone
    /\ ncalls = 0
    /\ tmp = TmpEmpty
    /\ outfs = <<>>
    /\ sv = SvIdle
    /\ af = AfIdle
    /\ nfail = 0

New == NewOver(GenParams)

Next ==
    \/ New
    \/ GenerateBatch
    \/ GbGenerate
    \/ GbMean
    \/ GbSweep
    \/ GbStatsOpen
    \/ GbStatsClose
    \/ GbAbort

Spec == Init /\ [][Next]_vars

(***************************************************************************)
(* The video model: one instance, constructed with delay_batch set, over   *)
(* frames small enough in number to be followed and large enough in size   *)
(* to hold the IBL marker; the calls of its methods in any order.  The     *)
(* generation runs to its end here; its interruptions are followed in the  *)
(* generation model.                                                       *)
(***************************************************************************)
VideoParams ==
    {[BaseParams EXCEPT !.xsize = 10000, !.ysize = 5000, !.tdur = d, !.demean = m] :
        d \in 9..MaxVideoTdur, m \in {"both"}}

FnSet == {<<"o">>, <<"o", ".", "m", "p", "4">>}

Bare(n) == [str |-> TRUE, n |-> n, args |-> <<>>]
Tup(n, args) == [str |-> FALSE, n |-> n, args |-> args]

VideoFilters ==
    { <<>>,
      <<Tup("threshold", << <<1, 2>> >>), Bare("invert")>>,
      <<Bare("invert"), Bare("zebra"), Bare("center")>>,
      <<Tup("comb", << <<1, 10>> >>), Tup("stripes", <<3>>)>>,
      <<Bare("photodiode_ibl")>>,
      <<Bare("reverse"), Tup("wood", << <<1, 4>> >>)>>,
      <<Tup("reverse", <<>>)>>,
      <<Tup("<lambda>", <<>>), Tup("photodiode", <<100>>)>> }

InitVideo ==
    /\ \E p \in VideoParams : self = Construct(p)
    /\ pc = "idle"
    /\ op = "init"
    /\ ret = "ok"
    /\ batchfs = <<>>
    /\ statsfs = <<>>
    /\ gb = GbIdle
    /\ entry = EntryNone
    /\ ncalls = 0
    /\ tmp = TmpEmpty
    /\ outfs = <<>>
    /\ sv = SvIdle
    /\ af = AfIdle
    /\ nfail = 0

SaveVideoCall == \E fn \in FnSet, loop \in {1, 2}, filters \in VideoFilters :
                    SaveVideo(fn, loop, filters)

SaveGreyPadCall == \E fn \in FnSet : SaveGreyPad(fn, 2)

GenerateFrameCall == \E filters \in VideoFilters : GenerateFrame(0, filters)

NextVideo ==
    \/ GenerateBatch
    \/ GbGenerate
    \/ GbMean
    \/ GbSweep
    \/ GbStatsOpen
    \/ GbStatsClose
    \/ SaveVideoCall
    \/ SvBatch
    \/ SvLink
    \/ SvEncode
    \/ SvAbort
    \/ SaveGreyPadCall
    \/ GenerateFrameCall

SpecVideo == InitVideo /\ [][NextVideo]_vars

(***************************************************************************)
(* The constructor model: instances made one after the other, with         *)
(* delay_batch set, over frame sizes on both sides of the memory budget    *)
(* and frame counts on both sides of a multiple of tscale.                 *)
(***************************************************************************)
CtorSizes ==
    { <<20000, 10000>>, <<10000, 10000>>, <<12000, 10000>>, <<16000, 10000>>,
      <<30000, 20000>>, <<25000, 16000>>,
      <<10000, 20000>>,       \* wrong orientation
      <<10000, 3000>> }       \* ratio times XYSCALEBASE not an integer

CtorParams ==
    {[BaseParams EXCEPT !.xsize = sz[1], !.ysize = sz[2], !.tdur = d,
                        !.fps = f, !.tscale = ts] :
        sz \in CtorSizes, d \in {1, 2, 5, 99, 100, 101}, f \in {1, 2},
        ts \in 1..4}

NewCtor == NewDelayed(CtorParams)

NextCtor == NewCtor

SpecCtor == Init /\ [][NextCtor]_vars

(***************************************************************************)
(* Properties of generate_batch and of the cache (checked under Spec).     *)
(***************************************************************************)
\* the number K of batches of the current volume, from its definition:
\* the least K with K * batch_size >= t_size
KOf(s) == CHOOSE n \in 0..s.size[3] :
             n * s.batch_size >= s.size[3] /\ (n - 1) * s.batch_size < s.size[3]

\* C1: if the statistics file of the key exists when generate_batch starts,
\* generate_batch calls the sampler zero times, creates or rewrites no batch
\* file and no statistics file, and sets min_, max_ and nframes to the
\* persisted values.
C1_StatsShortCircuit ==
    (op = "generate_batch" /\ entry.hit) =>
        /\ pc = "idle"
        /\ ncalls = 0
        /\ batchfs = entry.b
        /\ statsfs = entry.s
        /\ ret = "ok"
        /\ self.has_stats
        /\ self.min_ = statsfs[cache_key(self)].min_
        /\ self.max_ = statsfs[cache_key(self)].max_
        /\ self.nframes = statsfs[cache_key(self)].nframes

\* C1, the part that holds of the code: the same, when the statistics file
\* found at entry is a completely written one; whatever the file holds, no
\* sampling is done and no file is written.
C1_ShortCircuitOfCompleteStats ==
    (op = "generate_batch" /\ entry.hit) =>
        /\ pc = "idle"
        /\ ncalls = 0
        /\ batchfs = entry.b
        /\ statsfs = entry.s
        /\ entry.s[cache_key(self)].complete =>
              /\ ret = "ok"
              /\ self.has_stats
              /\ self.min_ = statsfs[cache_key(self)].min_
              /\ self.max_ = statsfs[cache_key(self)].max_
              /\ self.nframes = statsfs[cache_key(self)].nframes

\* C2: from a cache with no files for the key, after generate_batch completes
\* (in every demean mode) batch files exist for exactly k = 0..K-1, their frame
\* counts sum to the persisted nframes, and nframes is the padded t_size.
C2_BatchContiguity ==
    (op = "generate_batch" /\ pc = "idle" /\ ret = "ok" /\ entry.fresh) =>
        LET key == cache_key(self)
            K == KOf(self)
        IN  /\ BatchesOf(batchfs, self) = 0..(K - 1)
            /\ key \in DOMAIN statsfs
            /\ SumSeq([b \in 1..K |-> Len(batchfs[<<key, b - 1>>].arr)])
                  = statsfs[key].nframes
            /\ statsfs[key].nframes = self.size[3]

\* a run from an empty cache has completed, in mode "both", over two batches
\* of which the last is shorter
C2_Witness ==
    /\ op = "generate_batch" /\ pc = "idle" /\ ret = "ok" /\ entry.fresh
    /\ self.demean = "both"
    /\ KOf(self) = 2
    /\ self.size[3] % self.batch_size # 0
    /\ BatchesOf(batchfs, self) = {0, 1}

\* C3: the statistics record is persisted atomically: a generate_batch that
\* finds the statistics file existing finds a completely written record.
C3_StatsAtomic ==
    (op = "generate_batch" /\ entry.hit) => entry.s[cache_key(self)].complete

\* the cache found at entry is inconsistent for the key: statistics without
\* all of the batches 0..K-1, or batches without statistics
EntryInconsistent ==
    LET had == {f[2] : f \in {g \in DOMAIN entry.b : g[1] = cache_key(self)}}
    IN  \/ entry.hit /\ had # 0..(KOf(self) - 1)
        \/ ~entry.hit /\ had # {}

\* C4: an inconsistent cache is surfaced as an error: generate_batch does not
\* regenerate over existing batch files, and save_video does not complete with
\* fewer frames than the persisted nframes.
C4_InconsistencySurfaced ==
    /\ (op = "generate_batch" /\ pc = "idle" /\ EntryInconsistent) => ret = "error"
    /\ (op = "generate_batch" /\ EntryInconsistent) => batchfs = entry.b
    /\ (op = "save_video" /\ pc = "idle" /\ ret = "ok") => sv.n_frames >= self.nframes

\* C5: the cache key covers every parameter that changes the sampled values:
\* an instance that short-circuits on the statistics of its key finds under
\* that key only batches generated with its own generate_frames arguments.
C5_KeyCoversGeneration ==
    (op = "generate_batch" /\ entry.hit /\ ret = "ok") =>
        \A k \in BatchesOf(batchfs, self) :
            batchfs[<<cache_key(self), k>>].by = GenArgs(self)

(***************************************************************************)
(* Properties of save_video and of the filters (checked under SpecVideo).  *)
(***************************************************************************)
\* C6: if the file the encoder would be asked to write exists, save_video
\* raises before any frame file is written and before the encoder is invoked,
\* and the file is not overwritten.
C6_NoOverwrite ==
    (op = "save_video" /\ sv.existed) =>
        /\ pc = "idle"
        /\ ret = "error"
        /\ sv.i = 0
        /\ sv.enc = "none"
        /\ \A f \in DOMAIN outfs : ~outfs[f].cur

\* C7: on every exit path of save_video the frame files written by that
\* invocation have been removed when control returns to the caller.
C7_TmpReclaimed ==
    (op = "save_video" /\ pc = "idle") =>
        \A x \in DOMAIN tmp.frames : ~tmp.frames[x].cur

\* C8: if the encoder run of save_video or save_grey_pad fails, the
\* operation ends with an error; it never returns normally.
C8_EncoderFailureSurfaced ==
    (op \in {"save_video", "save_grey_pad"} /\ pc = "idle" /\ sv.enc = "failed") =>
        ret = "error"

\* the filter names filter_frames defines
DefinedFilterNames ==
    {"threshold", "softthresh", "comb", "invert", "reverse", "blur", "wood",
     "center", "photodiode", "photodiode_anywhere", "photodiode_b2",
     "photodiode_fusi", "photodiode_bscope", "photodiode_ibl"}

NamesOf(filters) == [i \in 1..Len(filters) |-> filters[i].n]

\* the position of the first entry that is neither a defined filter nor a
\* callable; 0 when there is none
FirstUnknown(filters) ==
    LET bad == {i \in 1..Len(filters) :
                  filters[i].n \notin DefinedFilterNames \cup Callables}
    IN  IF bad = {} THEN 0 ELSE CHOOSE i \in bad : \A j \in bad : i <= j

\* the filters that come before the first unknown one (all, when none is)
KnownPrefix(filters) ==
    SubSeq(NamesOf(filters), 1,
           IF FirstUnknown(filters) = 0 THEN Len(filters)
           ELSE FirstUnknown(filters) - 1)

\* C9: apply_filters applies the filters in list order and raises on the first
\* unknown entry: no later filter is applied and no batch is returned; in
\* save_video the encoder is then never invoked and no video file is written.
C9_UnknownFilterAborts ==
    /\ op = "generate_frame" =>
          /\ af.log = KnownPrefix(af.filters)
          /\ FirstUnknown(af.filters) > 0 => (ret = "error" /\ af.out = <<>>)
          /\ FirstUnknown(af.filters) = 0 => (ret = "ok" /\ af.out # <<>>)
    /\ (op = "save_video" /\ FirstUnknown(sv.filters) > 0) =>
          /\ sv.enc = "none"
          /\ \A f \in DOMAIN outfs : ~outfs[f].cur
          /\ pc # "sv_enc"
          /\ pc = "idle" => ret = "error"
          /\ sv.i = 0
          /\ sv.log \in {<<>>, KnownPrefix(sv.filters)}

\* both have happened: a save_video over a generated cache that an unknown
\* second filter has ended, and then a generate_frame whose second filter is
\* unknown
C9_Witness ==
    /\ self.has_stats /\ ~sv.existed /\ sv.fn \notin DOMAIN outfs
    /\ FirstUnknown(sv.filters) = 2
    /\ sv.log = <<"comb">> /\ sv.enc = "none" /\ sv.i = 0
    /\ op = "generate_frame" /\ pc = "idle" /\ ret = "error"
    /\ FirstUnknown(af.filters) = 2
    /\ af.log = <<"invert">>

\* the pixel of PixelsOf that lies in the IBL marker square
IblPixel == CHOOSE i \in 1..NPix : PixelsOf(0, 0)[i] = <<IblY - 1, IblX - 1>>

\* C10: in save_video with the photodiode_ibl filter the marker written into
\* the frame of global source index g is seq[g] > .5.
C10_IblRunningOffset ==
    (op = "save_video" /\ sv.filters = <<Bare("photodiode_ibl")>>) =>
        \A x \in DOMAIN tmp.frames :
            tmp.frames[x].cur =>
                tmp.frames[x].px[IblPixel] = IF IblBit(tmp.frames[x].g) THEN 255 ELSE 0

\* C10 within the first batch, where the offset is 0 (the part that holds)
C10_IblFirstBatch ==
    (op = "save_video" /\ sv.filters = <<Bare("photodiode_ibl")>>) =>
        \A x \in DOMAIN tmp.frames :
            (tmp.frames[x].cur /\ tmp.frames[x].g < self.batch_size) =>
                tmp.frames[x].px[IblPixel] = IF IblBit(tmp.frames[x].g) THEN 255 ELSE 0

\* sanity of the model's numbers: statistics that were written over more
\* than one frame hold max_ > min_
StatsSpread ==
    \A key \in DOMAIN statsfs :
        (statsfs[key].complete /\ statsfs[key].nframes > 1) =>
            statsfs[key].max_ > statsfs[key].min_

(***************************************************************************)
(* Properties of the generated volume (checked under Spec).                *)
(***************************************************************************)
\* every value of every batch file of the key of s, as last written
CachedValues(s) ==
    UNION { UNION { {batchfs[<<cache_key(s), k>>].arr[j][i] : i \in 1..NPix} :
                      j \in 1..Len(batchfs[<<cache_key(s), k>>].arr) } :
              k \in BatchesOf(batchfs, s) }

\* a generate_batch that did the generation has completed
GeneratedNow == op = "generate_batch" /\ pc = "idle" /\ ret = "ok" /\ ~entry.hit

NamesReverse(filters) == \E i \in 1..Len(filters) : filters[i].n = "reverse"

\* C12: for a filter list that contains the reverse filter, in any position
\* and bare or as a (name, args...) entry, filter_frames_index_function is
\* the map i -> n - i - 1 (a bijection on [0, n) and an involution); for a
\* list without it, the identity.  Seen where save_video applies it: the
\* frame of source index g stands at the number the map gives it.
C12_ReverseIndexFunction ==
    LET n == self.nframes
        rev(i) == n - i - 1
    IN  (op = "save_video" /\ n > 0) =>
           /\ \A i \in 0..(n - 1) : rev(i) \in 0..(n - 1) /\ rev(rev(i)) = i
           /\ \A x \in DOMAIN tmp.frames :
                 (tmp.frames[x].cur /\ x < n) =>
                    tmp.frames[x].g = IF NamesReverse(sv.filters) THEN rev(x) ELSE x

\* C15: in demean mode time every batch persisted by generate_batch has, for
\* each spatial pixel, zero mean across the frames of that batch.
C15_TimeDemeanPerPixel ==
    (op = "generate_batch" /\ self.demean = "time") =>
        \A k \in BatchesOf(batchfs, self) :
            LET arr == batchfs[<<cache_key(self), k>>].arr
            IN  \A i \in 1..NPix : SumSeq([j \in 1..Len(arr) |-> arr[j][i]]) = 0

\* C15, what the code removes in mode time: the mean of each frame over its
\* pixels, so that every persisted frame has zero mean across space
C15_TimeDemeanPerFrame ==
    (op = "generate_batch" /\ self.demean = "time") =>
        \A k \in BatchesOf(batchfs, self) :
            LET arr == batchfs[<<cache_key(self), k>>].arr
            IN  \A j \in 1..Len(arr) : SumSeq(arr[j]) = 0

\* the number of times the sweep of the running generate_batch has rewritten
\* batch k of the current key since its first-pass write
SweepsOf(k) == batchfs[<<cache_key(self), k>>].sweeps

\* C16: in a generate_batch run with demean mode space or both, the first-pass
\* write of every batch 0..K-1 comes before the first read or rewrite of the
\* sweep, the sweep rewrites each batch 0..K-1 exactly once in increasing
\* order, and the statistics file is written only after the last rewrite.
C16_PassOrder ==
    (op = "generate_batch" /\ ~entry.hit /\ self.demean \in {"both", "space"}
       /\ self.batch_size > 0) =>
        LET K == KOf(self)
        IN  /\ pc = "gb_gen" =>
                  \* the sweep has touched none of the batches written so far
                  /\ gb.k <= K
                  /\ \A k \in 0..(gb.k - 1) : BatchIsFile(self, k) /\ SweepsOf(k) = 0
                  /\ ~StatsIsFile(self)
            /\ pc = "gb_sweep" =>
                  \* every batch has its first-pass write; those before gb.k
                  \* are rewritten once, those from gb.k on not yet
                  /\ BatchesOf(batchfs, self) = 0..(K - 1)
                  /\ gb.k <= K
                  /\ \A k \in 0..(K - 1) : SweepsOf(k) = IF k < gb.k THEN 1 ELSE 0
                  /\ ~StatsIsFile(self)
            /\ (pc = "gb_statsw" \/ (pc = "idle" /\ ret = "ok")) =>
                  /\ BatchesOf(batchfs, self) = 0..(K - 1)
                  /\ \A k \in 0..(K - 1) : SweepsOf(k) = 1
            /\ (StatsIsFile(self) /\ pc # "idle") => pc = "gb_statsw"

\* the sweep of a run in mode both stands between its two batches, over a
\* cache in which an earlier, interrupted run had left batch files
C16_Witness ==
    /\ op = "generate_batch" /\ ~entry.hit /\ ~entry.fresh
    /\ self.demean = "both"
    /\ pc = "gb_sweep" /\ gb.k = 1 /\ KOf(self) = 2
    /\ SweepsOf(0) = 1 /\ SweepsOf(1) = 0

\* the numbers of the frame files the running save_video has written
WrittenNow == {x \in DOMAIN tmp.frames : tmp.frames[x].cur}

\* C17: in save_video over a consistent cache the batches are processed in
\* increasing order and the frame of global source index g is written to
\* frame file number reindex(g); when the batch loop ends the numbers written
\* are exactly 0..N-1, none of them twice, with and without reverse.
C17_FrameNumbering ==
    (op = "save_video" /\ pc = "sv_batch") =>
        LET N == self.nframes
            reindex(g) == filter_frames_index_function(sv.filters, N, g)
        IN  \* batches 0..sv.k-1 are done, in this order: sv.i counts their frames
            /\ sv.i = Min2(sv.k * self.batch_size, N)
            /\ sv.shift = sv.i
            /\ WrittenNow = {reindex(g) : g \in 0..(sv.i - 1)}
            /\ Cardinality(WrittenNow) = sv.i
            /\ \A g \in 0..(sv.i - 1) : tmp.frames[reindex(g)].g = g
            /\ ~BatchIsFile(self, sv.k) =>
                  /\ sv.k = KOf(self)
                  /\ WrittenNow = 0..(N - 1)

\* the batch loop of a save_video with the reverse filter has ended over two
\* batches: the nine frames stand at 0..8, the first source frame last
C17_Witness ==
    /\ op = "save_video" /\ pc = "sv_batch"
    /\ ~BatchIsFile(self, sv.k) /\ sv.k = 2
    /\ HasReverse(sv.filters)
    /\ self.nframes = 9
    /\ WrittenNow = 0..8
    /\ tmp.frames[8].g = 0 /\ tmp.frames[0].g = 8

\* What one uninterrupted run from an empty cache leaves, computed on the
\* whole volume at once: every frame sampled, in modes time and both each
\* frame less its mean over the pixels, in modes space and both each pixel
\* less its mean over all the frames.
FreshVolume(s) ==
    LET T == s.size[3]
        raw == generate_frames(GenArgs(s), [j \in 1..T |-> j - 1], UnitOf(s))
        v1 == IF s.demean \in {"both", "time"}
              THEN [j \in 1..T |->
                      [i \in 1..NPix |-> raw[j][i] - ExactDiv(SumSeq(raw[j]), NPix)]]
              ELSE raw
        mean(i) == ExactDiv(SumSeq([j \in 1..T |-> v1[j][i]]), T)
    IN  IF s.demean \in {"both", "space"}
        THEN [j \in 1..T |-> [i \in 1..NPix |-> v1[j][i] - mean(i)]]
        ELSE v1

\* frames k*batch_size .. of the volume: the contents of batch file k
FreshBatch(s, k) ==
    LET v == FreshVolume(s)
        lo == k * s.batch_size
        hi == Min2(s.size[3], (k + 1) * s.batch_size)
    IN  [j \in 1..(hi - lo) |-> v[lo + j]]

FreshStats(s) ==
    LET v == FreshVolume(s)
        all == UNION {{v[j][i] : i \in 1..NPix} : j \in 1..Len(v)}
    IN  [complete |-> TRUE,
         min_ |-> CHOOSE m \in all : \A x \in all : m <= x,
         max_ |-> CHOOSE m \in all : \A x \in all : m >= x,
         nframes |-> s.size[3]]

\* C18: if a generate_batch run aborts before the statistics file is written,
\* a later generate_batch with the same parameters ends with exactly the batch
\* files and statistics of one uninterrupted run from an empty cache; no batch
\* has the spatial mean subtracted twice.
C18_RerunEqualsFresh ==
    GeneratedNow =>
        /\ BatchesOf(batchfs, self) = 0..(KOf(self) - 1)
        /\ \A k \in BatchesOf(batchfs, self) :
              LET f == batchfs[<<cache_key(self), k>>]
              IN  /\ f.arr = FreshBatch(self, k)
                  /\ f.by = GenArgs(self)
                  /\ f.sweeps = IF self.demean \in {"both", "space"} THEN 1 ELSE 0
        /\ statsfs[cache_key(self)] = FreshStats(self)

\* a run in mode both has completed over two batches in a cache where an
\* earlier run with the same parameters was interrupted part-way through the
\* sweep: batch 0 had been rewritten, batch 1 not yet
C18_Witness ==
    /\ GeneratedNow /\ ~entry.fresh
    /\ self.demean = "both" /\ KOf(self) = 2
    /\ <<cache_key(self), 0>> \in DOMAIN entry.b
    /\ <<cache_key(self), 1>> \in DOMAIN entry.b
    /\ entry.b[<<cache_key(self), 0>>].sweeps = 1
    /\ entry.b[<<cache_key(self), 1>>].sweeps = 0
    /\ entry.b[<<cache_key(self), 0>>].by = GenArgs(self)
    /\ batchfs[<<cache_key(self), 1>>].arr # entry.b[<<cache_key(self), 1>>].arr
    /\ batchfs[<<cache_key(self), 0>>].arr = FreshBatch(self, 0)
    /\ batchfs[<<cache_key(self), 0>>].sweeps = 1

\* the pixel of PixelsOf that lies in the corner square of the photodiode
\* filters, im[:s, -s:]
CornerPixel == CHOOSE i \in 1..NPix : PixelsOf(0, 0)[i][1] = 0

\* the last filter of the list is the photodiode filter
PhotodiodeLast(filters) ==
    Len(filters) > 0 /\ filters[Len(filters)].n = "photodiode"

\* C19: every cached batch except possibly the last has an even number of
\* frames, so in save_video with a photodiode filter applied last the marker
\* of the frame of global source index g is 0 when g is even and 1 when g is
\* odd, in every batch.
C19_PhotodiodeAlternates ==
    /\ (self.alive /\ self.batch_size > 0) =>
          \A k \in BatchesOf(batchfs, self) :
              k < KOf(self) - 1 => Len(batchfs[<<cache_key(self), k>>].arr) % 2 = 0
    /\ (op = "save_video" /\ PhotodiodeLast(sv.filters)) =>
          \A x \in WrittenNow :
              tmp.frames[x].px[CornerPixel] =
                  IF tmp.frames[x].g % 2 = 0 THEN 0 ELSE 255

\* a save_video with the photodiode filter last has written the frames of
\* both batches: frame 8, the first of batch 1, carries 0 and frame 7 carries 1
C19_Witness ==
    /\ op = "save_video" /\ PhotodiodeLast(sv.filters)
    /\ sv.k = 2 /\ self.batch_size = 8
    /\ {7, 8} \subseteq WrittenNow
    /\ tmp.frames[8].g = 8 /\ tmp.frames[8].px[CornerPixel] = 0
    /\ tmp.frames[7].g = 7 /\ tmp.frames[7].px[CornerPixel] = 255

(***************************************************************************)
(* Properties of the constructor (checked under SpecCtor).                 *)
(***************************************************************************)
\* C11: for every accepted x_size and y_size the batch length chosen at
\* construction is a positive even integer with
\* x_size * y_size * batch_length <= 400000000.
C11_BatchWithinBudget ==
    self.alive =>
        /\ self.batch_size > 0
        /\ self.batch_size % 2 = 0
        /\ self.size[1] * self.size[2] * self.batch_size <= MemBudget

\* C13: for a requested frame count n >= 1 and an integer tscale >= 1 the
\* stored t_size is the smallest multiple of tscale that is >= n, and the
\* warning is emitted if and only if t_size > n.
C13_PaddedToMultiple ==
    (self.alive /\ self.tsize >= 1 /\ self.tscale >= 1) =>
        /\ self.size[3] % self.tscale = 0
        /\ 0 <= self.size[3] - self.tsize
        /\ self.size[3] - self.tsize < self.tscale
        /\ self.warned <=> self.size[3] > self.tsize

\* 100 frames requested with tscale 3: 102 frames, with the warning
C13_Witness ==
    /\ self.alive /\ op = "init" /\ ret = "ok"
    /\ self.tsize = 100 /\ self.tscale = 3
    /\ self.size[3] = 102
    /\ self.warned

====
